---- MODULE Spec2Model ----
(***************************************************************************)
(* Device Health Diagnostics add-in: the classification and root-cause     *)
(* engine (src/src/js/rootCauseEngine.js) with its constants               *)
(* (src/src/js/constants.js).                                              *)
(*                                                                         *)
(* Time is in milliseconds, as Date.now() and Date.getTime() give it.      *)
(* A JavaScript value that may be null/undefined is a record with a tag k  *)
(* and a payload, so that every value of one field has one shape.          *)
(***************************************************************************)
EXTENDS Integers, Sequences, FiniteSets, TLC

\* ---------------------------------------------------------------------------
\* constants.js
\* ---------------------------------------------------------------------------

VOLTAGE == "DiagnosticGoDeviceVoltageId"
CRANKING_VOLTAGE == "DiagnosticCrankingVoltageId"
GPS_NOT_RESPONDING == "DiagnosticGpsNotRespondingId"
GPS_ANTENNA_UNPLUGGED == "DiagnosticGpsAntennaUnpluggedId"
GPS_ANTENNA_SHORT == "DiagnosticGpsAntennaShortCircuitId"
CELLULAR_RSSI == "DiagnosticCellularRssiId"
INTERMITTENT_CONNECTION == "DiagnosticIntermittentConnectionCommunicationsId"
HARNESS_STANDARD == "DiagnosticStandardHarnessDetectedId"
HARNESS_6PIN == "DiagnosticHarnessDetected6PinId"
HARNESS_9PIN == "DiagnosticHarnessDetected9PinId"
CAN_INIT_FAIL == "DiagnosticCanBusFailedToInitializeId"
CAN_SHORT == "DiagnosticCanBusShortId"
CAN_DISABLED == "DiagnosticCanBusDisabledId"
UNPLUGGED == "DiagnosticDeviceHasBeenUnpluggedId"
FLASH_ERROR == "DiagnosticFlashErrorCountId"
BOOTLOADER_FAIL == "DiagnosticBootloaderUpdateHasFailedId"

ALL_DIAGNOSTIC_IDS ==
    << VOLTAGE, CRANKING_VOLTAGE, GPS_NOT_RESPONDING, GPS_ANTENNA_UNPLUGGED,
       GPS_ANTENNA_SHORT, CELLULAR_RSSI, INTERMITTENT_CONNECTION,
       HARNESS_STANDARD, HARNESS_6PIN, HARNESS_9PIN, CAN_INIT_FAIL, CAN_SHORT,
       CAN_DISABLED, UNPLUGGED, FLASH_ERROR, BOOTLOADER_FAIL >>

DiagnosticIds == { ALL_DIAGNOSTIC_IDS[i] : i \in DOMAIN ALL_DIAGNOSTIC_IDS }

HARDWARE_FAULT_CODES == {128, 297, 450, 467, 468}
OEM_FAULT_CODES == {488, 491}
LOW_VOLTAGE_FAULT_CODE == 135
BAD_INSTALL_FAULT_CODE == 287

VoltageDEAD == 7
VoltageLOW == 9
VoltageWARNING == 11

RssiNO_SIGNAL == -113
RssiPOOR == -95

OfflineNORMAL_SLEEP == 24
OfflineEXTENDED == 72

CRITICAL == "critical"
WARNING == "warning"
INFO == "info"
HEALTHY == "healthy"

CatUNPLUGGED == "unplugged"
CatHARDWARE == "hardware"
CatPOWER == "power"
CatINSTALLATION == "installation"
CatGPS == "gps"
CatCELLULAR == "cellular"
CatFIRMWARE == "firmware"
CatOEM == "oem"
CatOFFLINE == "offline"

\* C.ScoreDeductions[issue.severity] || 0
ScoreDeductions(sev) ==
    CASE sev = CRITICAL -> 40
      [] sev = WARNING -> 20
      [] sev = INFO -> 5
      [] OTHER -> 0

\* 1000 * 60 * 60, the divisor of hoursAgo and of logAgeH
MsPerHour == 3600000

\* logAgeH > 4
GpsStaleHours == 4

\* Math.min(20, ...) and * 5 in computeHealthScore
OfflinePenaltyCap == 20
OfflinePenaltyStep == 5

\* ---------------------------------------------------------------------------
\* JavaScript values
\* ---------------------------------------------------------------------------

\* null / undefined, and a number
Null == [k |-> "null", v |-> 0]
Num(n) == [k |-> "num", v |-> n]
NaN == [k |-> "nan", v |-> 0]
\* a TypeError raised while the value was computed
Thrown == [k |-> "throw", v |-> 0]

\* f.diagnostic / f.failureMode: the sub-object is missing, or its id is a
\* numeric code (a number or a string of digits), or a non-numeric name.
NoRef == [k |-> "absent", v |-> 0]
CodeRef(n) == [k |-> "code", v |-> n]
NameRef == [k |-> "name", v |-> 0]

\* parseInt(ref.id, 10)
parseInt(ref) == IF ref.k = "code" THEN Num(ref.v) ELSE NaN

\* hours as the code holds them: a finite quotient ms / MsPerHour, Infinity
\* or NaN
Infinity == [k |-> "inf", ms |-> 0]
NaNHours == [k |-> "nan", ms |-> 0]
Hours(ms) == [k |-> "fin", ms |-> ms]

\* h > n for an hour count h and an integer n (false for NaN)
HoursGe(h, n) == \/ h.k = "inf"
                 \/ h.k = "fin" /\ h.ms >= n * MsPerHour
HoursGt(h, n) == \/ h.k = "inf"
                 \/ h.k = "fin" /\ h.ms > n * MsPerHour

\* a timestamp field: missing (null, undefined, ""), a valid date, or a
\* string Date cannot parse
NoDate == [k |-> "none", t |-> 0]
DateAt(t) == [k |-> "ms", t |-> t]
InvalidDate == [k |-> "invalid", t |-> 0]

hoursAgo(dateStr, clock) ==
    CASE dateStr.k = "none" -> Infinity
      [] dateStr.k = "invalid" -> NaNHours
      [] OTHER -> Hours(clock - dateStr.t)

Min(a, b) == IF a < b THEN a ELSE b
Max(a, b) == IF a > b THEN a ELSE b

\* ---------------------------------------------------------------------------
\* Helpers of the engine
\* ---------------------------------------------------------------------------

\* Array.prototype.sort with the comparator new Date(b.dateTime) - new
\* Date(a.dateTime): descending by dateTime, stable (equal keys keep their
\* order).
RECURSIVE InsertDesc(_, _)
InsertDesc(sorted, r) ==
    IF sorted = << >> THEN << r >>
    ELSE IF Head(sorted).dateTime >= r.dateTime
         THEN << Head(sorted) >> \o InsertDesc(Tail(sorted), r)
         ELSE << r >> \o sorted

RECURSIVE SortDesc(_)
SortDesc(recs) ==
    IF recs = << >> THEN << >>
    ELSE InsertDesc(SortDesc(SubSeq(recs, 1, Len(recs) - 1)), recs[Len(recs)])

\* Array.prototype.slice(): a new array holding the same elements
Slice(recs) == recs

\* a series of the map, or a list argument: missing (undefined / null) or an
\* array
Absent == [present |-> FALSE, recs |-> << >>]
Arr(recs) == [present |-> TRUE, recs |-> recs]

\* latestValue without its first line: undefined.slice and sorted[0].data
\* of an empty array raise a TypeError
latestValueUnguarded(statusRecords) ==
    IF ~statusRecords.present \/ Len(statusRecords.recs) = 0 THEN Thrown
    ELSE Num(Head(SortDesc(Slice(statusRecords.recs))).data)

latestValue(statusRecords) ==
    IF ~statusRecords.present \/ Len(statusRecords.recs) = 0 THEN Null
    ELSE Num(Head(SortDesc(Slice(statusRecords.recs))).data)

\* the caller's array once latestValue has returned: the sort worked on the
\* copy that slice() made
SortedInPlace(statusRecords) ==
    [statusRecords EXCEPT !.recs = SortDesc(statusRecords.recs)]
ArrayAfterSort(statusRecords) == statusRecords

\* the codes of the diagnostic references alone
RECURSIVE faultCodesDiagnosticOnly(_)
faultCodesDiagnosticOnly(faults) ==
    IF faults = << >> THEN << >>
    ELSE LET f == Head(faults)
             d == IF f.diagnostic.k # "absent" /\ parseInt(f.diagnostic).k = "num"
                  THEN << parseInt(f.diagnostic).v >> ELSE << >>
         IN d \o faultCodesDiagnosticOnly(Tail(faults))

RECURSIVE faultCodesForDevice(_)
faultCodesForDevice(faults) ==
    IF faults = << >> THEN << >>
    ELSE LET f == Head(faults)
             d == IF f.diagnostic.k # "absent" /\ parseInt(f.diagnostic).k = "num"
                  THEN << parseInt(f.diagnostic).v >> ELSE << >>
             m == IF f.failureMode.k # "absent" /\ parseInt(f.failureMode).k = "num"
                  THEN << parseInt(f.failureMode).v >> ELSE << >>
         IN d \o m \o faultCodesForDevice(Tail(faults))

SeqToSet(s) == { s[i] : i \in DOMAIN s }

\* ---------------------------------------------------------------------------
\* Health score
\* ---------------------------------------------------------------------------

RECURSIVE SumDeductions(_)
SumDeductions(issues) ==
    IF issues = << >> THEN 0
    ELSE ScoreDeductions(Head(issues).severity) + SumDeductions(Tail(issues))

\* Math.round((offlineH - 24) / 24) for a finite offlineH > 24:
\* floor(x + 1/2) with x = (ms - 24 MsPerHour) / (24 MsPerHour)
\* Math.floor in the place of Math.round
FloorExtraDays(ms) ==
    (ms - OfflineNORMAL_SLEEP * MsPerHour) \div (24 * MsPerHour)

RoundExtraDays(ms) ==
    (2 * (ms - OfflineNORMAL_SLEEP * MsPerHour) + 24 * MsPerHour)
        \div (2 * 24 * MsPerHour)

OfflinePenalty(offlineH, isCommunicating) ==
    IF ~isCommunicating /\ HoursGt(offlineH, OfflineNORMAL_SLEEP)
    THEN IF offlineH.k = "inf" THEN OfflinePenaltyCap
         ELSE Min(OfflinePenaltyCap, RoundExtraDays(offlineH.ms) * OfflinePenaltyStep)
    ELSE 0

\* the score without the final Math.max(0, Math.min(100, score))
computeHealthScoreUnclamped(issues, offlineH, isCommunicating) ==
    100 - SumDeductions(issues) - OfflinePenalty(offlineH, isCommunicating)

computeHealthScore(issues, offlineH, isCommunicating) ==
    LET score == 100 - SumDeductions(issues)
                     - OfflinePenalty(offlineH, isCommunicating)
    IN Max(0, Min(100, score))

\* ---------------------------------------------------------------------------
\* Fleet-level classification
\* ---------------------------------------------------------------------------

Issue(cat, sev, label) == [category |-> cat, severity |-> sev, label |-> label]

\* faults = faults || []
FaultsOrEmpty(faults) == IF faults.present THEN faults.recs ELSE << >>

\* the comparison without the two tests for a missing version
FirmwareMismatchUnguarded(device) ==
    /\ device.k = "obj"
    /\ device.parameterVersion # device.parameterVersionOnDevice

\* device && device.parameterVersion != null &&
\* device.parameterVersionOnDevice != null &&
\* device.parameterVersion !== device.parameterVersionOnDevice
FirmwareMismatch(device) ==
    /\ device.k = "obj"
    /\ device.parameterVersion.k # "null"
    /\ device.parameterVersionOnDevice.k # "null"
    /\ device.parameterVersion # device.parameterVersionOnDevice

\* the check with >= in the place of > at both thresholds
ClassifyOfflineInclusive(isCommunicating, offlineH) ==
    IF ~isCommunicating
    THEN IF HoursGe(offlineH, OfflineEXTENDED)
         THEN << Issue(CatOFFLINE, CRITICAL, "Offline > 72h") >>
         ELSE IF HoursGe(offlineH, OfflineNORMAL_SLEEP)
              THEN << Issue(CatOFFLINE, WARNING, "Offline > 24h") >>
              ELSE << >>
    ELSE << >>

\* the check without its else-if branch for 24 hours
ClassifyOfflineExtendedOnly(isCommunicating, offlineH) ==
    IF ~isCommunicating /\ HoursGt(offlineH, OfflineEXTENDED)
    THEN << Issue(CatOFFLINE, CRITICAL, "Offline > 72h") >>
    ELSE << >>

ClassifyOffline(isCommunicating, offlineH) ==
    IF ~isCommunicating
    THEN IF HoursGt(offlineH, OfflineEXTENDED)
         THEN << Issue(CatOFFLINE, CRITICAL, "Offline > 72h") >>
         ELSE IF HoursGt(offlineH, OfflineNORMAL_SLEEP)
              THEN << Issue(CatOFFLINE, WARNING, "Offline > 24h") >>
              ELSE << >>
    ELSE << >>

ClassifyFaultCodes(codes) ==
    (IF codes \cap HARDWARE_FAULT_CODES # {}
     THEN << Issue(CatHARDWARE, CRITICAL, "Hardware Failure") >> ELSE << >>)
    \o (IF LOW_VOLTAGE_FAULT_CODE \in codes
        THEN << Issue(CatPOWER, WARNING, "Low Battery") >> ELSE << >>)
    \o (IF BAD_INSTALL_FAULT_CODE \in codes
        THEN << Issue(CatINSTALLATION, WARNING, "Loose Install") >> ELSE << >>)
    \o (IF codes \cap OEM_FAULT_CODES # {}
        THEN << Issue(CatOEM, INFO, "OEM Issue") >> ELSE << >>)

ClassifyFirmware(device) ==
    IF FirmwareMismatch(device)
    THEN << Issue(CatFIRMWARE, INFO, "Firmware Pending") >> ELSE << >>

\* the test without isCommunicating
ClassifyGpsOffline(statusInfo) ==
    IF statusInfo.latitude = 0 /\ statusInfo.longitude = 0
    THEN << Issue(CatGPS, WARNING, "GPS Issue") >> ELSE << >>

\* the test with || between the two coordinates
ClassifyGpsAnyZero(statusInfo) ==
    IF (statusInfo.latitude = 0 \/ statusInfo.longitude = 0)
       /\ statusInfo.isDeviceCommunicating
    THEN << Issue(CatGPS, WARNING, "GPS Issue") >> ELSE << >>

ClassifyGps(statusInfo) ==
    IF statusInfo.latitude = 0 /\ statusInfo.longitude = 0
       /\ statusInfo.isDeviceCommunicating
    THEN << Issue(CatGPS, WARNING, "GPS Issue") >> ELSE << >>

\* the two nested loops over severityOrder and issues: the index of the
\* issue they stop at, 0 when they run to the end
severityOrder == << CRITICAL, WARNING, INFO >>

FirstWithSeverity(issues, sev) ==
    IF \E i \in DOMAIN issues : issues[i].severity = sev
    THEN CHOOSE i \in DOMAIN issues :
            /\ issues[i].severity = sev
            /\ \A j \in 1..(i - 1) : issues[j].severity # sev
    ELSE 0

RECURSIVE PrimaryIndexFrom(_, _)
PrimaryIndexFrom(issues, s) ==
    IF s > Len(severityOrder) THEN 0
    ELSE IF FirstWithSeverity(issues, severityOrder[s]) # 0
         THEN FirstWithSeverity(issues, severityOrder[s])
         ELSE PrimaryIndexFrom(issues, s + 1)

\* the first issue found, whatever its severity
FirstIssueIndex(issues) == IF issues = << >> THEN 0 ELSE 1

PrimaryIndex(issues) == PrimaryIndexFrom(issues, 1)

\* what a call leaves behind: nothing yet, a returned value, or a TypeError
NoClassification ==
    [k |-> "none", issues |-> << >>, primaryIssue |-> HEALTHY,
     severity |-> HEALTHY, healthScore |-> 0]
ClassificationError ==
    [k |-> "error", issues |-> << >>, primaryIssue |-> HEALTHY,
     severity |-> HEALTHY, healthScore |-> 0]

classifyDevice(statusInfo, faults, device, clock) ==
    IF statusInfo.k = "null" THEN ClassificationError
    ELSE
    LET isCommunicating == statusInfo.isDeviceCommunicating
        offlineH == hoursAgo(statusInfo.dateTime, clock)
        codes == SeqToSet(faultCodesForDevice(FaultsOrEmpty(faults)))
        issues == ClassifyOffline(isCommunicating, offlineH)
                  \o ClassifyFaultCodes(codes)
                  \o ClassifyFirmware(device)
                  \o ClassifyGps(statusInfo)
        p == PrimaryIndex(issues)
    IN [k |-> "ok",
        issues |-> issues,
        primaryIssue |-> IF p = 0 THEN HEALTHY ELSE issues[p].category,
        severity |-> IF p = 0 THEN HEALTHY ELSE issues[p].severity,
        healthScore |-> computeHealthScore(issues, offlineH, isCommunicating)]

\* ---------------------------------------------------------------------------
\* Full drill-down analysis
\* ---------------------------------------------------------------------------

\* what one rule does when it fires: rootCauses.push({...}) and
\* issues.push({...}). The root cause's rank is given by the rank++ of the
\* rules that fired before it; explanation is the list of the sentences the
\* text is made of; the actions are fixed text per category.
RC(cat, conf, sev, expl) ==
    [category |-> cat, confidence |-> conf, severity |-> sev, explanation |-> expl]
\* an issue pushed with a severity of its own
PushWarningIssue(rc, issue) ==
    << [rootCause |-> rc, issue |-> [issue EXCEPT !.severity = WARNING]] >>
Push(rc, issue) == << [rootCause |-> rc, issue |-> issue] >>

\* data && data.length > 0 && latestValue(data) > 0
LatestPositive(series) ==
    /\ series.present
    /\ Len(series.recs) > 0
    /\ latestValue(series).v > 0

\* f.failureMode ? parseInt(f.failureMode.id, 10) : NaN
FmId(f) == IF f.failureMode.k # "absent" THEN parseInt(f.failureMode) ELSE NaN
\* f.diagnostic ? parseInt(f.diagnostic.id, 10) : NaN
DId(f) == IF f.diagnostic.k # "absent" THEN parseInt(f.diagnostic) ELSE NaN

IsCode(n, codes) == n.k = "num" /\ n.v \in codes

\* 1. Unplugged
RuleUnplugged(sd) ==
    IF LatestPositive(sd[UNPLUGGED])
    THEN Push(RC(CatUNPLUGGED, 95, CRITICAL, << "unplugged_event" >>),
              Issue(CatUNPLUGGED, CRITICAL, "Unplugged"))
    ELSE << >>

\* the hardware rule pushing one root cause for each matching fault
RuleHardwarePerFault(sd, faults) ==
    LET hardwareFaults ==
            SelectSeq(faults, LAMBDA f : \/ IsCode(FmId(f), HARDWARE_FAULT_CODES)
                                         \/ IsCode(DId(f), HARDWARE_FAULT_CODES))
        hasFlashErrors == LatestPositive(sd[FLASH_ERROR])
        pushed == Push(RC(CatHARDWARE, 90, CRITICAL,
                          << "hardware_faults_detected" >>
                          \o (IF hasFlashErrors THEN << "flash_memory_errors" >> ELSE << >>)
                          \o (IF Len(hardwareFaults) > 0 THEN << "fault_codes_rma" >> ELSE << >>)),
                       Issue(CatHARDWARE, CRITICAL, "Hardware Failure"))
    IN IF Len(hardwareFaults) > 0
       THEN [i \in 1..Len(hardwareFaults) |-> pushed[1]]
       ELSE IF hasFlashErrors THEN pushed ELSE << >>

\* the hardware rule with the fault-code sentence only when there are no
\* flash errors
RuleHardwareOneSentence(sd, faults) ==
    LET hardwareFaults ==
            SelectSeq(faults, LAMBDA f : \/ IsCode(FmId(f), HARDWARE_FAULT_CODES)
                                         \/ IsCode(DId(f), HARDWARE_FAULT_CODES))
        hasFlashErrors == LatestPositive(sd[FLASH_ERROR])
    IN IF Len(hardwareFaults) > 0 \/ hasFlashErrors
       THEN Push(RC(CatHARDWARE, 90, CRITICAL,
                    << "hardware_faults_detected" >>
                    \o (IF hasFlashErrors THEN << "flash_memory_errors" >>
                                          ELSE << "fault_codes_rma" >>)),
                 Issue(CatHARDWARE, CRITICAL, "Hardware Failure"))
       ELSE << >>

\* 2. Hardware failure
RuleHardware(sd, faults) ==
    LET hardwareFaults ==
            SelectSeq(faults, LAMBDA f : \/ IsCode(FmId(f), HARDWARE_FAULT_CODES)
                                         \/ IsCode(DId(f), HARDWARE_FAULT_CODES))
        hasFlashErrors == LatestPositive(sd[FLASH_ERROR])
    IN IF Len(hardwareFaults) > 0 \/ hasFlashErrors
       THEN Push(RC(CatHARDWARE, 90, CRITICAL,
                    << "hardware_faults_detected" >>
                    \o (IF hasFlashErrors THEN << "flash_memory_errors" >> ELSE << >>)
                    \o (IF Len(hardwareFaults) > 0 THEN << "fault_codes_rma" >> ELSE << >>)),
                 Issue(CatHARDWARE, CRITICAL, "Hardware Failure"))
       ELSE << >>

\* the power rule with a low cranking voltage raising the result to
\* 90 / CRITICAL
RulePowerCrankingEscalates(sd, faults) ==
    LET hasLowVoltFault ==
            \E i \in DOMAIN faults : IsCode(FmId(faults[i]), {LOW_VOLTAGE_FAULT_CODE})
        lastVoltage == latestValue(sd[VOLTAGE])
        lastCranking == latestValue(sd[CRANKING_VOLTAGE])
        lowCranking == lastCranking.k # "null" /\ lastCranking.v < VoltageLOW
        tier == CASE lastVoltage.k # "null" /\ lastVoltage.v < VoltageDEAD -> 1
                  [] lastVoltage.k # "null" /\ lastVoltage.v < VoltageLOW -> 2
                  [] lastVoltage.k # "null" -> 3
                  [] OTHER -> 4
        voltConf == CASE tier = 1 \/ lowCranking -> 90 [] tier = 2 -> 85 [] OTHER -> 75
        voltSev == IF tier \in {1, 2} \/ lowCranking THEN CRITICAL ELSE WARNING
        voltExpl == CASE tier = 1 -> << "voltage_critically_low" >>
                      [] tier = 2 -> << "voltage_very_low" >>
                      [] tier = 3 -> << "voltage_below_normal" >>
                      [] OTHER -> << "fault_code_no_readings" >>
        crankExpl == IF lowCranking THEN << "cranking_voltage_low" >> ELSE << >>
    IN IF hasLowVoltFault \/ (lastVoltage.k # "null" /\ lastVoltage.v < VoltageWARNING)
       THEN Push(RC(CatPOWER, voltConf, voltSev, voltExpl \o crankExpl),
                 Issue(CatPOWER, voltSev, "Low Battery"))
       ELSE << >>

\* 3. Power / voltage
RulePower(sd, faults) ==
    LET hasLowVoltFault ==
            \E i \in DOMAIN faults : IsCode(FmId(faults[i]), {LOW_VOLTAGE_FAULT_CODE})
        lastVoltage == latestValue(sd[VOLTAGE])
        lastCranking == latestValue(sd[CRANKING_VOLTAGE])
        tier == CASE lastVoltage.k # "null" /\ lastVoltage.v < VoltageDEAD -> 1
                  [] lastVoltage.k # "null" /\ lastVoltage.v < VoltageLOW -> 2
                  [] lastVoltage.k # "null" -> 3
                  [] OTHER -> 4
        voltConf == CASE tier = 1 -> 90 [] tier = 2 -> 85 [] OTHER -> 75
        voltSev == IF tier \in {1, 2} THEN CRITICAL ELSE WARNING
        voltExpl == CASE tier = 1 -> << "voltage_critically_low" >>
                      [] tier = 2 -> << "voltage_very_low" >>
                      [] tier = 3 -> << "voltage_below_normal" >>
                      [] OTHER -> << "fault_code_no_readings" >>
        crankExpl == IF lastCranking.k # "null" /\ lastCranking.v < VoltageLOW
                     THEN << "cranking_voltage_low" >> ELSE << >>
    IN IF hasLowVoltFault \/ (lastVoltage.k # "null" /\ lastVoltage.v < VoltageWARNING)
       THEN Push(RC(CatPOWER, voltConf, voltSev, voltExpl \o crankExpl),
                 Issue(CatPOWER, voltSev, "Low Battery"))
       ELSE << >>

\* 4. Installation / harness
RuleInstallation(sd, faults) ==
    LET hasInstallFault ==
            \E i \in DOMAIN faults : IsCode(FmId(faults[i]), {BAD_INSTALL_FAULT_CODE})
        hasCanIssue == LatestPositive(sd[CAN_INIT_FAIL]) \/ LatestPositive(sd[CAN_SHORT])
    IN IF hasInstallFault \/ hasCanIssue
       THEN Push(RC(CatINSTALLATION, 75, WARNING,
                    << "installation_issues_detected" >>
                    \o (IF hasInstallFault THEN << "bad_install_fault" >> ELSE << >>)
                    \o (IF hasCanIssue THEN << "can_bus_problems" >> ELSE << >>)),
                 Issue(CatINSTALLATION, WARNING, "Loose Install"))
       ELSE << >>

\* the staleness test without isCommunicating
GpsStaleWhileOffline(isCommunicating, logRecords, clock) ==
    /\ Len(logRecords) > 0
    /\ clock - Head(SortDesc(Slice(logRecords))).dateTime > GpsStaleHours * MsPerHour

\* 5. GPS
GpsStale(isCommunicating, logRecords, clock) ==
    /\ isCommunicating
    /\ Len(logRecords) > 0
    /\ clock - Head(SortDesc(Slice(logRecords))).dateTime > GpsStaleHours * MsPerHour

RuleGps(sd, isCommunicating, logRecords, clock) ==
    LET hasGpsAntennaFault == \/ LatestPositive(sd[GPS_ANTENNA_UNPLUGGED])
                              \/ LatestPositive(sd[GPS_ANTENNA_SHORT])
        hasGpsNotResponding == LatestPositive(sd[GPS_NOT_RESPONDING])
        gpsStale == GpsStale(isCommunicating, logRecords, clock)
        gpsConf == IF hasGpsAntennaFault THEN 90
                   ELSE IF hasGpsNotResponding THEN 80 ELSE 60
        gpsSev == IF hasGpsAntennaFault THEN CRITICAL ELSE WARNING
        gpsExpl == IF hasGpsAntennaFault THEN << "gps_antenna_fault" >>
                   ELSE IF hasGpsNotResponding THEN << "gps_not_responding" >>
                        ELSE << "gps_stale" >>
    IN IF hasGpsAntennaFault \/ hasGpsNotResponding \/ gpsStale
       THEN Push(RC(CatGPS, gpsConf, gpsSev, gpsExpl), Issue(CatGPS, gpsSev, "GPS Issue"))
       ELSE << >>

\* the cellular rule as four separate ifs, a later condition overwriting
\* what an earlier one set
RuleCellularLastWins(sd, isCommunicating, offlineH) ==
    LET lastRSSI == latestValue(sd[CELLULAR_RSSI])
        hasIntermittent == LatestPositive(sd[INTERMITTENT_CONNECTION])
        branch == CASE ~isCommunicating /\ HoursGt(offlineH, OfflineNORMAL_SLEEP) -> 4
                    [] hasIntermittent -> 3
                    [] lastRSSI.k # "null" /\ lastRSSI.v < RssiNO_SIGNAL -> 1
                    [] lastRSSI.k # "null" /\ lastRSSI.v < RssiPOOR -> 2
                    [] OTHER -> 0
        cellConf == CASE branch = 1 -> 85 [] branch = 2 -> 70 [] branch = 3 -> 65
                      [] branch = 4 -> 60 [] OTHER -> 55
        cellSev == CASE branch = 1 -> CRITICAL
                     [] branch \in {2, 3} -> WARNING
                     [] branch = 4 -> IF HoursGt(offlineH, OfflineEXTENDED)
                                      THEN CRITICAL ELSE WARNING
                     [] OTHER -> INFO
    IN IF branch # 0
       THEN Push(RC(CatCELLULAR, cellConf, cellSev, << >>),
                 Issue(CatCELLULAR, cellSev, "Connectivity Issue"))
       ELSE << >>

\* 6. Cellular / connectivity
RuleCellular(sd, isCommunicating, offlineH) ==
    LET lastRSSI == latestValue(sd[CELLULAR_RSSI])
        hasIntermittent == LatestPositive(sd[INTERMITTENT_CONNECTION])
        branch == CASE lastRSSI.k # "null" /\ lastRSSI.v < RssiNO_SIGNAL -> 1
                    [] lastRSSI.k # "null" /\ lastRSSI.v < RssiPOOR -> 2
                    [] hasIntermittent -> 3
                    [] ~isCommunicating /\ HoursGt(offlineH, OfflineNORMAL_SLEEP) -> 4
                    [] OTHER -> 0
        cellIssue == branch # 0
        cellConf == CASE branch = 1 -> 85 [] branch = 2 -> 70 [] branch = 3 -> 65
                      [] branch = 4 -> 60 [] OTHER -> 55
        cellSev == CASE branch = 1 -> CRITICAL
                     [] branch \in {2, 3} -> WARNING
                     [] branch = 4 -> IF HoursGt(offlineH, OfflineEXTENDED)
                                      THEN CRITICAL ELSE WARNING
                     [] OTHER -> INFO
        cellExpl == CASE branch = 1 -> << "no_signal" >>
                      [] branch = 2 -> << "poor_signal" >>
                      [] branch = 3 -> << "intermittent" >>
                      [] branch = 4 -> << "offline_for_hours" >>
                                       \o (IF HoursGt(offlineH, OfflineEXTENDED)
                                           THEN << "extended_offline" >> ELSE << >>)
                      [] OTHER -> << >>
    IN IF cellIssue
       THEN Push(RC(CatCELLULAR, cellConf, cellSev, cellExpl),
                 Issue(CatCELLULAR, cellSev, "Connectivity Issue"))
       ELSE << >>

\* the firmware rule with the version mismatch deciding severity and text
\* whenever it is present
RuleFirmwareMismatchFirst(sd, device) ==
    LET hasBootFail == LatestPositive(sd[BOOTLOADER_FAIL])
        hasFwMismatch == FirmwareMismatch(device)
        fwSev == IF hasFwMismatch THEN INFO ELSE WARNING
        fwExpl == IF hasFwMismatch THEN << "pending_configuration_update" >>
                                   ELSE << "bootloader_update_failed" >>
    IN IF hasBootFail \/ hasFwMismatch
       THEN Push(RC(CatFIRMWARE, 95, fwSev, fwExpl),
                 Issue(CatFIRMWARE, fwSev,
                       IF hasFwMismatch THEN "Firmware Pending" ELSE "Firmware Failure"))
       ELSE << >>

\* 7. Firmware
RuleFirmware(sd, device) ==
    LET hasBootFail == LatestPositive(sd[BOOTLOADER_FAIL])
        hasFwMismatch == FirmwareMismatch(device)
        fwSev == IF hasBootFail THEN WARNING ELSE INFO
        fwExpl == IF hasBootFail THEN << "bootloader_update_failed" >>
                                 ELSE << "pending_configuration_update" >>
    IN IF hasBootFail \/ hasFwMismatch
       THEN Push(RC(CatFIRMWARE, 95, fwSev, fwExpl),
                 Issue(CatFIRMWARE, fwSev,
                       IF hasBootFail THEN "Firmware Failure" ELSE "Firmware Pending"))
       ELSE << >>

\* 8. OEM
RuleOem(faults) ==
    LET oemFaults == SelectSeq(faults, LAMBDA f : IsCode(FmId(f), OEM_FAULT_CODES))
    IN IF Len(oemFaults) > 0
       THEN Push(RC(CatOEM, 85, INFO, << "oem_fault_codes" >>),
                 Issue(CatOEM, INFO, "OEM Issue"))
       ELSE << >>

\* rank++ after the push: ranks from 0
RankedFromZero(fired, i) ==
    [rank |-> i - 1, category |-> fired[i].rootCause.category,
     confidence |-> fired[i].rootCause.confidence,
     severity |-> fired[i].rootCause.severity,
     explanation |-> fired[i].rootCause.explanation]

\* rank++ before each push: the i-th root cause pushed has rank i
Ranked(fired, i) ==
    [rank |-> i, category |-> fired[i].rootCause.category,
     confidence |-> fired[i].rootCause.confidence,
     severity |-> fired[i].rootCause.severity,
     explanation |-> fired[i].rootCause.explanation]

NoAnalysis == [k |-> "none", rootCauses |-> << >>, healthScore |-> 0, issues |-> << >>]
AnalysisError == [k |-> "error", rootCauses |-> << >>, healthScore |-> 0, issues |-> << >>]

\* the calls of latestValue that no test of the series guards: an error
\* raised in one of them leaves analyzeDevice
UnguardedReads == { VOLTAGE, CRANKING_VOLTAGE, CELLULAR_RSSI }

analyzeDevice(device, statusInfo, sd, logRecordsArg, faultsArg, clock) ==
    LET faults == FaultsOrEmpty(faultsArg)
        logRecords == FaultsOrEmpty(logRecordsArg)
        isCommunicating == IF statusInfo.k # "null"
                           THEN statusInfo.isDeviceCommunicating ELSE FALSE
        offlineH == IF statusInfo.k # "null"
                    THEN hoursAgo(statusInfo.dateTime, clock) ELSE Infinity
        fired == RuleUnplugged(sd)
                 \o RuleHardware(sd, faults)
                 \o RulePower(sd, faults)
                 \o RuleInstallation(sd, faults)
                 \o RuleGps(sd, isCommunicating, logRecords, clock)
                 \o RuleCellular(sd, isCommunicating, offlineH)
                 \o RuleFirmware(sd, device)
                 \o RuleOem(faults)
        issues == [i \in DOMAIN fired |-> fired[i].issue]
    IN IF \E id \in UnguardedReads : latestValue(sd[id]).k = "throw"
       THEN AnalysisError
       ELSE [k |-> "ok",
             rootCauses |-> [i \in DOMAIN fired |-> Ranked(fired, i)],
             healthScore |-> computeHealthScore(issues, offlineH, isCommunicating),
             issues |-> issues]

\* ---------------------------------------------------------------------------
\* The data the host holds for one device and hands to the engine
\* ---------------------------------------------------------------------------

\* events (arrivals of data, readings of a later clock) before the data is
\* discarded
MaxEvents == 2

\* the clock reading when the first data arrives
StartTime == 300 * MsPerHour

NoDevice == [k |-> "null", parameterVersion |-> Null, parameterVersionOnDevice |-> Null]
Device(pv, pvd) == [k |-> "obj", parameterVersion |-> pv, parameterVersionOnDevice |-> pvd]
HealthyDevice == Device(Num(3), Num(3))
Devices == { NoDevice, HealthyDevice, Device(Num(4), Num(3)), Device(Num(4), Null) }

NoStatusInfo ==
    [k |-> "null", isDeviceCommunicating |-> FALSE, dateTime |-> NoDate,
     latitude |-> 0, longitude |-> 0]
StatusInfo(c, d, lat, long) ==
    [k |-> "obj", isDeviceCommunicating |-> c, dateTime |-> d,
     latitude |-> lat, longitude |-> long]
\* hours since the last contact, at StartTime
OfflineAges == {10, 24, 36, 72, 200}
DateTimes == { NoDate, InvalidDate }
             \cup { DateAt(StartTime - h * MsPerHour) : h \in OfflineAges }
Positions == { << 0, 0 >>, << 0, 79 >>, << 43, 79 >> }
StatusInfos ==
    { NoStatusInfo } \cup
    { StatusInfo(c, d, p[1], p[2]) : c \in BOOLEAN, d \in DateTimes, p \in Positions }
HealthyStatusInfo == StatusInfo(TRUE, DateAt(StartTime - 10 * MsPerHour), 43, 79)

Fault(d, m) == [diagnostic |-> d, failureMode |-> m]
FaultPool ==
    { Fault(NoRef, NoRef), Fault(NameRef, NameRef),
      Fault(CodeRef(128), CodeRef(135)), Fault(CodeRef(135), CodeRef(287)),
      Fault(CodeRef(287), CodeRef(488)), Fault(CodeRef(491), CodeRef(468)) }

\* hours since a position report, at StartTime
LogAges == {1, 4, 5}
LogPool == { [dateTime |-> StartTime - h * MsPerHour] : h \in LogAges }

\* the series the engine reads, and the values a point of a series may carry
ReadIds == DiagnosticIds \ { HARNESS_STANDARD, HARNESS_6PIN, HARNESS_9PIN }
ValuesOf(id) ==
    CASE id = VOLTAGE -> {6, 7, 9, 11}
      [] id = CRANKING_VOLTAGE -> {8, 12}
      [] id = CELLULAR_RSSI -> {-114, -113, -95}
      [] id \in ReadIds -> {0, 1}
      [] OTHER -> {1}
PointTimes == { StartTime - 2 * MsPerHour, StartTime - MsPerHour }
PointsOf(id) == { [dateTime |-> t, data |-> v] : t \in PointTimes, v \in ValuesOf(id) }

EmptySeries == [id \in DiagnosticIds |-> Arr(<< >>)]

\* ---------------------------------------------------------------------------
\* State
\* ---------------------------------------------------------------------------

VARIABLES now, events, device, statusInfo, faults, sd, logRecords,
          classification, classifiedAt, analysis, analyzedAt

inputs == << device, statusInfo, faults, sd, logRecords >>
results == << classification, classifiedAt, analysis, analyzedAt >>

\* The page around the engine: the view that is active, the loading and
\* error elements, the click listeners bound by each render of the fleet
\* dashboard, the tile filter and the sort state of the dashboard, the
\* classified fleet and the rows of the table, the loads whose devices and
\* fleet data are held, the fleet loads and drill-down fetches in flight,
\* what the drill-down panel shows, and the user's clicks so far.
VARIABLES uiView, loadingVisible, errorVisible, listeners, rows,
          activeFilter, sortCol, sortAsc,
          deviceCache, fleetData, classifications, fleetLoads, loadsStarted,
          drillRequests, requestsIssued, shown, lastClick, drillFailures,
          userEvents

ui == << uiView, loadingVisible, errorVisible, listeners, rows,
         activeFilter, sortCol, sortAsc,
         deviceCache, fleetData, classifications, fleetLoads, loadsStarted,
         drillRequests, requestsIssued, shown, lastClick, drillFailures,
         userEvents >>

vars == << now, events, device, statusInfo, faults, sd, logRecords,
           classification, classifiedAt, analysis, analyzedAt, ui >>

\* the devices of the fleet, and what the server returns for each: the
\* device, its status snapshot, its faults and its drill-down data
DeviceIds == { "d1", "d2" }
getAllDevices == << "d1", "d2" >>
DeviceOf(id) == IF id = "d1" THEN HealthyDevice ELSE Device(Num(4), Num(3))
StatusInfoOf(id) ==
    IF id = "d1" THEN HealthyStatusInfo
    ELSE StatusInfo(TRUE, DateAt(StartTime - 10 * MsPerHour), 0, 0)
FaultsOf(id) ==
    IF id = "d1" THEN Arr(<< Fault(CodeRef(128), NoRef) >>) ELSE Arr(<< >>)
StatusDataOf(id) == EmptySeries
LogRecordsOf(id) == Arr(<< >>)

\* the drill-down panel before the first render
NothingShown == [deviceId |-> "none", analysis |-> NoAnalysis]

\* _activeFilter = null
NoFilter == "null"

\* initialize(): bindRefresh() and loadFleetData(), the fleet view active;
\* the dashboard has not rendered yet
Initialize ==
    /\ uiView = "fleet"
    /\ loadingVisible = TRUE
    /\ errorVisible = FALSE
    /\ listeners = 0
    /\ rows = << >>
    /\ activeFilter = NoFilter
    /\ sortCol = "severity"
    /\ sortAsc = TRUE
    /\ deviceCache = 0
    /\ fleetData = 0
    /\ classifications = << >>
    /\ fleetLoads = { [n |-> 1, phase |-> "devices"] }
    /\ loadsStarted = 1
    /\ drillRequests = {}
    /\ requestsIssued = 0
    /\ shown = NothingShown
    /\ lastClick = "none"
    /\ drillFailures = 0
    /\ userEvents = 0

\* a communicating device with no faults, no series data, no position
\* reports and matching configuration versions
Init ==
    /\ now = StartTime
    /\ events = 0
    /\ device = HealthyDevice
    /\ statusInfo = HealthyStatusInfo
    /\ faults = Arr(<< >>)
    /\ sd = EmptySeries
    /\ logRecords = Arr(<< >>)
    /\ classification = NoClassification
    /\ classifiedAt = 0
    /\ analysis = NoAnalysis
    /\ analyzedAt = 0
    /\ Initialize

NotCalled == classification.k = "none" /\ analysis.k = "none"

Arrival ==
    /\ NotCalled
    /\ events < MaxEvents
    /\ events' = events + 1
    /\ UNCHANGED << now, classification, classifiedAt, analysis, analyzedAt >>
    /\ UNCHANGED ui

ReceiveDevice ==
    /\ Arrival
    /\ device' \in Devices \ { device }
    /\ UNCHANGED << statusInfo, faults, sd, logRecords >>

ReceiveStatusInfo ==
    /\ Arrival
    /\ statusInfo' \in StatusInfos \ { statusInfo }
    /\ UNCHANGED << device, faults, sd, logRecords >>

ReceiveFault ==
    /\ Arrival
    /\ faults.present
    /\ \E f \in FaultPool : faults' = Arr(Append(faults.recs, f))
    /\ UNCHANGED << device, statusInfo, sd, logRecords >>

ReceiveLogRecord ==
    /\ Arrival
    /\ logRecords.present
    /\ \E l \in LogPool : logRecords' = Arr(Append(logRecords.recs, l))
    /\ UNCHANGED << device, statusInfo, faults, sd >>

ReceiveStatusData ==
    /\ Arrival
    /\ \E id \in DiagnosticIds : \E p \in PointsOf(id) :
          /\ sd[id].present
          /\ sd' = [sd EXCEPT ![id] = Arr(Append(sd[id].recs, p))]
    /\ UNCHANGED << device, statusInfo, faults, logRecords >>

\* a list or a series that is not delivered at all
ReceiveNothing ==
    /\ Arrival
    /\ \/ /\ faults = Arr(<< >>)
          /\ faults' = Absent
          /\ UNCHANGED << sd, logRecords >>
       \/ /\ logRecords = Arr(<< >>)
          /\ logRecords' = Absent
          /\ UNCHANGED << faults, sd >>
       \/ /\ \E id \in DiagnosticIds :
                /\ sd[id] = Arr(<< >>)
                /\ sd' = [sd EXCEPT ![id] = Absent]
          /\ UNCHANGED << faults, logRecords >>
    /\ UNCHANGED << device, statusInfo >>

\* a classifier whose issues array outlives the call
ClassifyDeviceSharedIssues ==
    /\ classification' =
          [classifyDevice(statusInfo, faults, device, now)
             EXCEPT !.issues = classification.issues \o @]
    /\ classifiedAt' = now
    /\ UNCHANGED << now, events, device, statusInfo, faults, sd, logRecords,
                    analysis, analyzedAt >>
    /\ UNCHANGED ui

ClassifyDevice ==
    /\ classification' = classifyDevice(statusInfo, faults, device, now)
    /\ classifiedAt' = now
    /\ UNCHANGED << now, events, device, statusInfo, faults, sd, logRecords,
                    analysis, analyzedAt >>
    /\ UNCHANGED ui

AnalyzeDevice ==
    /\ analysis' = analyzeDevice(device, statusInfo, sd, logRecords, faults, now)
    /\ analyzedAt' = now
    /\ sd' = [id \in DiagnosticIds |-> ArrayAfterSort(sd[id])]
    /\ logRecords' = ArrayAfterSort(logRecords)
    /\ UNCHANGED << now, events, device, statusInfo, faults,
                    classification, classifiedAt >>
    /\ UNCHANGED ui

\* Date.now() reads one millisecond later
Tick ==
    /\ events < MaxEvents
    /\ events' = events + 1
    /\ now' = now + 1
    /\ UNCHANGED << inputs, results >>
    /\ UNCHANGED ui

Discard ==
    /\ ~NotCalled
    /\ now' = StartTime
    /\ events' = 0
    /\ device' = HealthyDevice
    /\ statusInfo' = HealthyStatusInfo
    /\ faults' = Arr(<< >>)
    /\ sd' = EmptySeries
    /\ logRecords' = Arr(<< >>)
    /\ classification' = NoClassification
    /\ classifiedAt' = 0
    /\ analysis' = NoAnalysis
    /\ analyzedAt' = 0
    /\ UNCHANGED ui

Next ==
    \/ ReceiveDevice
    \/ ReceiveStatusInfo
    \/ ReceiveFault
    \/ ReceiveLogRecord
    \/ ReceiveStatusData
    \/ ReceiveNothing
    \/ ClassifyDevice
    \/ AnalyzeDevice
    \/ Tick
    \/ Discard

Spec == Init /\ [][Next]_vars

\* ---------------------------------------------------------------------------
\* The page: fleet loads, the fleet dashboard, device clicks and drill-down
\* fetches
\* ---------------------------------------------------------------------------

\* clicks of the user (tiles, column headers, rows, Back, Refresh) in one
\* session
MaxUserEvents == 4

engine == << now, events, device, statusInfo, faults, sd, logRecords,
             classification, classifiedAt, analysis, analyzedAt >>

\* the state of the fleet dashboard and the array it shares with the host
dashboard == << rows, activeFilter, sortCol, sortAsc, classifications >>
\* the drill-down side
drill == << drillRequests, requestsIssued, shown, lastClick, drillFailures >>
\* the fleet loads
loads == << deviceCache, fleetData, fleetLoads, loadsStarted >>

\* TILES: the keys and the filterFn of each
TileKeys ==
    { "total", "healthy", "offline", "battery", "install", "gps", "hardware",
      "unplugged" }
filterFn(key, c) ==
    CASE key = "total" -> TRUE
      [] key = "healthy" -> c.severity = HEALTHY
      [] key = "offline" ->
            \E i \in DOMAIN c.issues : c.issues[i].category = CatOFFLINE
      [] key = "battery" -> c.primaryIssue = CatPOWER
      [] key = "install" -> c.primaryIssue = CatINSTALLATION
      [] key = "gps" -> c.primaryIssue = CatGPS
      [] key = "hardware" -> c.primaryIssue = CatHARDWARE
      [] key = "unplugged" -> c.primaryIssue = CatUNPLUGGED

\* the tiles and the column headers the user clicks
ClickedTiles == { "hardware", "gps" }
ClickedColumns == { "severity", "health" }

severityRank(s) ==
    CASE s = CRITICAL -> 0
      [] s = WARNING -> 1
      [] s = INFO -> 2
      [] s = HEALTHY -> 3
      [] OTHER -> 4

\* va / vb of the comparator of sortData
SortValue(item, col) ==
    CASE col = "severity" -> severityRank(item.classification.severity)
      [] col = "health" -> item.classification.healthScore
      [] OTHER -> 0

\* data.sort(comparator): a stable sort; the comparator returns a negative
\* number when the item comes before the head
RECURSIVE InsertItem(_, _, _, _)
InsertItem(sorted, item, col, asc) ==
    LET va == SortValue(item, col)
        vb == SortValue(Head(sorted), col)
    IN IF sorted = << >> THEN << item >>
       ELSE IF (IF asc THEN va < vb ELSE va > vb) THEN << item >> \o sorted
       ELSE << Head(sorted) >> \o InsertItem(Tail(sorted), item, col, asc)
RECURSIVE sortData(_, _, _)
sortData(data, col, asc) ==
    IF data = << >> THEN << >>
    ELSE InsertItem(sortData(SubSeq(data, 1, Len(data) - 1), col, asc),
                    data[Len(data)], col, asc)

\* _activeFilter && _activeFilter !== "total": data.filter makes a copy,
\* otherwise getFilteredData returns the array _classifications itself
Filtering(filter) == filter # NoFilter /\ filter # "total"
getFilteredData(data, filter) ==
    IF Filtering(filter)
    THEN SelectSeq(data, LAMBDA item : filterFn(filter, item.classification))
    ELSE data

\* the label of the issue column
issueLbl(cls) ==
    IF cls.primaryIssue = HEALTHY THEN "Healthy"
    ELSE IF Len(cls.issues) > 0 THEN cls.issues[1].label
    ELSE "Unknown"

\* the dashboard as one value: renderTable() writes the rows (the cells that
\* come from the classification) and, without a filter, sorts the shared
\* array in place
Dashboard(filter, col, asc, data) ==
    [activeFilter |-> filter, sortCol |-> col, sortAsc |-> asc,
     classifications |-> data]
renderTable(d) ==
    LET filtered == sortData(getFilteredData(d.classifications, d.activeFilter),
                             d.sortCol, d.sortAsc)
    IN [i \in DOMAIN filtered |->
          [deviceId |-> filtered[i].deviceId,
           severity |-> filtered[i].classification.severity,
           issueLbl |-> issueLbl(filtered[i].classification),
           healthScore |-> filtered[i].classification.healthScore]]
ArrayAfterRenderTable(d) ==
    IF Filtering(d.activeFilter) THEN d.classifications
    ELSE sortData(d.classifications, d.sortCol, d.sortAsc)

\* one click listener of the tiles container
TileListener(d, key) ==
    LET toggled == [d EXCEPT !.activeFilter = IF @ = key THEN NoFilter ELSE key]
    IN [toggled EXCEPT !.classifications = ArrayAfterRenderTable(toggled)]

\* one click listener of a column header
HeaderListener(d, col) ==
    LET sorted == IF d.sortCol = col
                  THEN [d EXCEPT !.sortAsc = ~@]
                  ELSE [d EXCEPT !.sortCol = col, !.sortAsc = TRUE]
    IN [sorted EXCEPT !.classifications = ArrayAfterRenderTable(sorted)]

\* the event reaches every listener bound to the element, one after the other
RECURSIVE TileListeners(_, _, _)
TileListeners(d, key, n) ==
    IF n = 0 THEN d ELSE TileListeners(TileListener(d, key), key, n - 1)
RECURSIVE HeaderListeners(_, _, _)
HeaderListeners(d, col, n) ==
    IF n = 0 THEN d ELSE HeaderListeners(HeaderListener(d, col), col, n - 1)

\* classifyFleet(): one item for each cached device that has a status
\* snapshot in the fleet data
classifyFleet ==
    [i \in DOMAIN getAllDevices |->
        [deviceId |-> getAllDevices[i],
         classification |-> classifyDevice(StatusInfoOf(getAllDevices[i]),
                                           FaultsOf(getAllDevices[i]),
                                           DeviceOf(getAllDevices[i]), now)]]

UserEvent ==
    /\ userEvents < MaxUserEvents
    /\ userEvents' = userEvents + 1

\* the Refresh button: showFleetView() and loadFleetData(), which shows the
\* loading element and starts DeviceCache.load
RefreshClick ==
    /\ UserEvent
    /\ uiView' = "fleet"
    /\ loadingVisible' = TRUE
    /\ errorVisible' = FALSE
    /\ fleetLoads' = fleetLoads \cup { [n |-> loadsStarted + 1, phase |-> "devices"] }
    /\ loadsStarted' = loadsStarted + 1
    /\ UNCHANGED << listeners, deviceCache, fleetData >>
    /\ UNCHANGED << dashboard, drill, engine >>

\* the response of DeviceCache.load: the devices replace the cached ones and
\* fetchFleetHealth starts
DeviceCacheLoaded ==
    \E l \in fleetLoads :
        /\ l.phase = "devices"
        /\ deviceCache' = l.n
        /\ fleetLoads' = (fleetLoads \ { l }) \cup { [n |-> l.n, phase |-> "health"] }
        /\ UNCHANGED << listeners, fleetData, loadsStarted, userEvents >>
        /\ UNCHANGED << uiView, loadingVisible, errorVisible, dashboard, drill, engine >>

\* the response of fetchFleetHealth: classifyFleet(), hideLoading() and
\* FleetDashboard.render, which clears the filter, renders tiles and table
\* and calls bindEvents(): one more click listener on the tiles container,
\* on the table body and on every column header
FleetHealthLoaded ==
    \E l \in fleetLoads :
        /\ l.phase = "health"
        /\ fleetData' = l.n
        /\ LET d == Dashboard(NoFilter, sortCol, sortAsc, classifyFleet)
           IN /\ activeFilter' = NoFilter
              /\ rows' = renderTable(d)
              /\ classifications' = ArrayAfterRenderTable(d)
        /\ loadingVisible' = FALSE
        /\ listeners' = listeners + 1
        /\ fleetLoads' = fleetLoads \ { l }
        /\ UNCHANGED << uiView, errorVisible, sortCol, sortAsc, deviceCache,
                        loadsStarted, userEvents >>
        /\ UNCHANGED << drill, engine >>

\* either request of a fleet load fails: showError()
FleetLoadFailed ==
    \E l \in fleetLoads :
        /\ loadingVisible' = FALSE
        /\ errorVisible' = TRUE
        /\ fleetLoads' = fleetLoads \ { l }
        /\ UNCHANGED << uiView, listeners, deviceCache, fleetData, loadsStarted,
                        userEvents >>
        /\ UNCHANGED << dashboard, drill, engine >>

\* a click on a tile, in the fleet view
TileClicked(key) ==
    /\ UserEvent
    /\ uiView = "fleet"
    /\ listeners > 0
    /\ LET d == TileListeners(Dashboard(activeFilter, sortCol, sortAsc,
                                        classifications), key, listeners)
       IN /\ activeFilter' = d.activeFilter
          /\ classifications' = d.classifications
          /\ rows' = renderTable(d)
    /\ UNCHANGED << listeners, sortCol, sortAsc >>
    /\ UNCHANGED << uiView, loadingVisible, errorVisible, loads, drill, engine >>
TileClick == \E key \in ClickedTiles : TileClicked(key)

\* a click on a column header, in the fleet view
HeaderClicked(col) ==
    /\ UserEvent
    /\ uiView = "fleet"
    /\ listeners > 0
    /\ LET d == HeaderListeners(Dashboard(activeFilter, sortCol, sortAsc,
                                          classifications), col, listeners)
       IN /\ sortCol' = d.sortCol
          /\ sortAsc' = d.sortAsc
          /\ classifications' = d.classifications
          /\ rows' = renderTable(d)
    /\ UNCHANGED << listeners, activeFilter >>
    /\ UNCHANGED << uiView, loadingVisible, errorVisible, loads, drill, engine >>
HeaderClick == \E col \in ClickedColumns : HeaderClicked(col)

\* a click on a row of the table, in the fleet view: every listener bound
\* to the table body calls onDeviceClick, which returns early without the
\* device or its status snapshot and otherwise shows the drill view and the
\* loading element and starts fetchDeviceDrillDown
DeviceRowClick ==
    \E i \in DOMAIN rows :
        /\ UserEvent
        /\ uiView = "fleet"
        /\ listeners > 0
        /\ lastClick' = rows[i].deviceId
        /\ IF deviceCache # 0 /\ fleetData # 0
           THEN /\ uiView' = "drill"
                /\ loadingVisible' = TRUE
                /\ errorVisible' = FALSE
                /\ drillRequests' = drillRequests \cup
                      { [n |-> requestsIssued + k, deviceId |-> rows[i].deviceId] :
                          k \in 1..listeners }
                /\ requestsIssued' = requestsIssued + listeners
           ELSE UNCHANGED << uiView, loadingVisible, errorVisible, drillRequests, requestsIssued >>
        /\ UNCHANGED << listeners, shown, drillFailures >>
        /\ UNCHANGED << dashboard, loads, engine >>

\* the response of fetchDeviceDrillDown: analyzeDevice, hideLoading() and
\* DeviceDiagnostics.render
DrillDownLoaded ==
    \E r \in drillRequests :
        /\ shown' = [deviceId |-> r.deviceId,
                     analysis |-> analyzeDevice(DeviceOf(r.deviceId),
                                                StatusInfoOf(r.deviceId),
                                                StatusDataOf(r.deviceId),
                                                LogRecordsOf(r.deviceId),
                                                FaultsOf(r.deviceId), now)]
        /\ loadingVisible' = FALSE
        /\ drillRequests' = drillRequests \ { r }
        /\ UNCHANGED << uiView, errorVisible, listeners, requestsIssued, lastClick,
                        drillFailures, userEvents >>
        /\ UNCHANGED << dashboard, loads, engine >>

\* fetchDeviceDrillDown fails: showError()
DrillDownFailed ==
    \E r \in drillRequests :
        /\ loadingVisible' = FALSE
        /\ errorVisible' = TRUE
        /\ drillFailures' = drillFailures + 1
        /\ drillRequests' = drillRequests \ { r }
        /\ UNCHANGED << uiView, listeners, requestsIssued, shown, lastClick,
                        userEvents >>
        /\ UNCHANGED << dashboard, loads, engine >>

\* the Back button that the last render put into the drill-down header
BackClick ==
    /\ UserEvent
    /\ uiView = "drill"
    /\ shown # NothingShown
    /\ uiView' = "fleet"
    /\ UNCHANGED << loadingVisible, errorVisible, listeners >>
    /\ UNCHANGED << dashboard, loads, drill, engine >>

NextUI ==
    \/ RefreshClick
    \/ DeviceCacheLoaded
    \/ FleetHealthLoaded
    \/ FleetLoadFailed
    \/ TileClick
    \/ HeaderClick
    \/ DeviceRowClick
    \/ DrillDownLoaded
    \/ DrillDownFailed
    \/ BackClick

SpecUI == Init /\ [][NextUI]_vars

\* ---------------------------------------------------------------------------
\* Properties
\* ---------------------------------------------------------------------------

Classified == classification.k = "ok"
Analyzed == analysis.k = "ok"

\* the issues of a list that carry one severity
CountOf(issues, sev) == Cardinality({ i \in DOMAIN issues : issues[i].severity = sev })
Categories(list) == { list[i].category : i \in DOMAIN list }

\* the arguments of the call that gave a result, read as the spec states them
NotCommunicating == statusInfo.k = "null" \/ ~statusInfo.isDeviceCommunicating
LastContactAbsent == statusInfo.k = "null" \/ statusInfo.dateTime.k = "none"
LastContactKnown == statusInfo.k = "obj" /\ statusInfo.dateTime.k = "ms"
\* milliseconds since the last contact at the clock reading at
MsOffline(at) == at - statusInfo.dateTime.t
\* offline for more than h hours at the clock reading at
OfflineLongerThan(h, at) ==
    /\ NotCommunicating
    /\ LastContactAbsent \/ (LastContactKnown /\ MsOffline(at) > h * MsPerHour)

\* round((hoursOffline - 24) / 24), halves rounded up: the n with
\* n - 1/2 <= (ms - 24h) / 24h < n + 1/2
RoundedExtraDays(ms) ==
    CHOOSE n \in 0..20 :
        /\ (2 * n - 1) * 12 * MsPerHour <= ms - 24 * MsPerHour
        /\ ms - 24 * MsPerHour < (2 * n + 1) * 12 * MsPerHour

ExpectedPenalty(at) ==
    IF OfflineLongerThan(24, at)
    THEN IF LastContactAbsent THEN 20
         ELSE IF 5 * RoundedExtraDays(MsOffline(at)) < 20
              THEN 5 * RoundedExtraDays(MsOffline(at)) ELSE 20
    ELSE 0

ExpectedScore(issues, at) ==
    LET raw == 100 - 40 * CountOf(issues, CRITICAL) - 20 * CountOf(issues, WARNING)
                   - 5 * CountOf(issues, INFO) - ExpectedPenalty(at)
    IN IF raw < 0 THEN 0 ELSE IF raw > 100 THEN 100 ELSE raw

\* C1: every health score that classifyDevice or analyzeDevice returns is an
\* integer from 0 to 100, whatever the issues, the offline duration (an
\* absent last-contact timestamp included) and the communication state.
C1_ScoreBounds ==
    /\ Classified => classification.healthScore \in 0..100
    /\ Analyzed => analysis.healthScore \in 0..100

\* a device with no last-contact timestamp whose deductions and offline
\* penalty together exceed 100: the score is held at 0
C1_Witness ==
    /\ Classified
    /\ statusInfo.k = "obj" /\ statusInfo.dateTime.k = "none"
    /\ ~statusInfo.isDeviceCommunicating
    /\ 40 * CountOf(classification.issues, CRITICAL)
         + 20 * CountOf(classification.issues, WARNING)
         + ExpectedPenalty(classifiedAt) > 100
    /\ classification.healthScore = 0

\* C2: the score is 100 minus 40 per CRITICAL, 20 per WARNING and 5 per INFO
\* issue, minus the offline penalty min(20, round((hours - 24) / 24) * 5)
\* (halves rounded up) of a device that is not communicating and offline for
\* more than 24 hours, the result clamped to 0..100.
C2_ScoreFormula ==
    /\ Classified =>
         classification.healthScore = ExpectedScore(classification.issues, classifiedAt)
    /\ Analyzed =>
         analysis.healthScore = ExpectedScore(analysis.issues, analyzedAt)

\* offline for exactly 36 hours, where (36 - 24) / 24 is the half that rounds
\* up to 1, together with a second issue
C2_Witness ==
    /\ Classified
    /\ statusInfo.k = "obj" /\ ~statusInfo.isDeviceCommunicating
    /\ LastContactKnown /\ MsOffline(classifiedAt) = 36 * MsPerHour
    /\ Len(classification.issues) >= 2
    /\ classification.healthScore
         = 95 - 40 * CountOf(classification.issues, CRITICAL)
              - 20 * CountOf(classification.issues, WARNING)
              - 5 * CountOf(classification.issues, INFO)
    /\ classification.healthScore > 0

\* the severity that decides the primary issue of a list
TopSeverity(issues) ==
    IF CountOf(issues, CRITICAL) > 0 THEN CRITICAL
    ELSE IF CountOf(issues, WARNING) > 0 THEN WARNING
    ELSE IF CountOf(issues, INFO) > 0 THEN INFO
    ELSE HEALTHY

\* C3: primaryIssue and severity are the category and severity of the first
\* CRITICAL issue in detection order if there is one, else of the first
\* WARNING issue, else of the first INFO issue; both are HEALTHY when there
\* is no issue.
C3_PrimarySelection ==
    Classified =>
      LET issues == classification.issues
          top == TopSeverity(issues)
      IN IF issues = << >>
         THEN classification.primaryIssue = HEALTHY /\ classification.severity = HEALTHY
         ELSE \E i \in DOMAIN issues :
                /\ issues[i].severity = top
                /\ \A j \in 1..(i - 1) : issues[j].severity # top
                /\ classification.primaryIssue = issues[i].category
                /\ classification.severity = top

\* the first issue detected is a WARNING and a later one is CRITICAL: the
\* later one is the primary issue
C3_Witness ==
    /\ Classified
    /\ Len(classification.issues) >= 2
    /\ classification.issues[1].severity = WARNING
    /\ classification.issues[2].severity = CRITICAL
    /\ classification.primaryIssue = classification.issues[2].category
    /\ classification.severity = CRITICAL

RuleOrder ==
    << CatUNPLUGGED, CatHARDWARE, CatPOWER, CatINSTALLATION,
       CatGPS, CatCELLULAR, CatFIRMWARE, CatOEM >>
RulePosition(cat) == CHOOSE n \in DOMAIN RuleOrder : RuleOrder[n] = cat

\* C4: the i-th root cause has rank i, and the categories of the root causes
\* follow the fixed rule order UNPLUGGED, HARDWARE, POWER, INSTALLATION, GPS,
\* CELLULAR, FIRMWARE, OEM, whatever their confidence and severity.
C4_RankOrder ==
    Analyzed =>
      LET rc == analysis.rootCauses
      IN /\ \A i \in DOMAIN rc : rc[i].rank = i
         /\ \A i \in DOMAIN rc : rc[i].category \in SeqToSet(RuleOrder)
         /\ \A i, j \in DOMAIN rc :
               i < j => RulePosition(rc[i].category) < RulePosition(rc[j].category)

\* an unplugged event and a hardware fault: UNPLUGGED has rank 1 and
\* HARDWARE rank 2
C4_Witness ==
    /\ Analyzed
    /\ Len(analysis.rootCauses) = 2
    /\ analysis.rootCauses[1].category = CatUNPLUGGED
    /\ analysis.rootCauses[1].rank = 1
    /\ analysis.rootCauses[2].category = CatHARDWARE
    /\ analysis.rootCauses[2].rank = 2

\* C5: issues and rootCauses of an analysis have the same length, and the
\* i-th issue has the category and the severity of the i-th root cause, so a
\* category is among the issues exactly when it is among the root causes.
C5_IssuesMatchRootCauses ==
    Analyzed =>
      /\ Len(analysis.issues) = Len(analysis.rootCauses)
      /\ \A i \in DOMAIN analysis.rootCauses :
            /\ i \in DOMAIN analysis.issues
            /\ analysis.issues[i].category = analysis.rootCauses[i].category
            /\ analysis.issues[i].severity = analysis.rootCauses[i].severity
      /\ Categories(analysis.issues) = Categories(analysis.rootCauses)

\* two rules fired, one of them with a severity that the readings raised to
\* CRITICAL (power below 9 V)
C5_Witness ==
    /\ Analyzed
    /\ Len(analysis.rootCauses) = 2
    /\ \E i \in DOMAIN analysis.rootCauses :
          /\ analysis.rootCauses[i].category = CatPOWER
          /\ analysis.rootCauses[i].severity = CRITICAL
          /\ analysis.issues[i].severity = CRITICAL

\* the no-issue baseline: a communicating device with a position fix, no
\* faults, no series data, no position reports, matching configuration
\* versions
Baseline ==
    /\ statusInfo.k = "obj" /\ statusInfo.isDeviceCommunicating
    /\ ~(statusInfo.latitude = 0 /\ statusInfo.longitude = 0)
    /\ FaultsOrEmpty(faults) = << >>
    /\ FaultsOrEmpty(logRecords) = << >>
    /\ \A id \in DiagnosticIds : FaultsOrEmpty(sd[id]) = << >>
    /\ device.k = "obj"
    /\ device.parameterVersion.k = "num"
    /\ device.parameterVersion = device.parameterVersionOnDevice

WithEmptyForAbsent(map) ==
    [id \in DiagnosticIds |-> IF map[id].present THEN map[id] ELSE Arr(<< >>)]

\* C7: missing or partial data never ends a call in an error: with series
\* missing from the map, fault and position lists empty or missing, faults
\* without a diagnostic or failure-mode code and the device omitted, both
\* calls return a result (classifyDevice given a status snapshot), and a
\* missing series counts as one whose latest value is null, that is as an
\* empty one.
C7_MissingDataTolerated ==
    /\ classification.k = "error" => statusInfo.k = "null"
    /\ analysis.k # "error"
    /\ Analyzed =>
         analysis = analyzeDevice(device, statusInfo, WithEmptyForAbsent(sd),
                                  Arr(FaultsOrEmpty(logRecords)),
                                  Arr(FaultsOrEmpty(faults)), analyzedAt)

\* the voltage series and the fault list are missing, and both calls returned
C7_Witness ==
    /\ Classified /\ Analyzed
    /\ ~sd[VOLTAGE].present
    /\ ~faults.present

AllSeriesEmpty ==
    /\ sd = EmptySeries
    /\ faults = Arr(<< >>)
    /\ logRecords = Arr(<< >>)

\* C8 as stated: with an empty series for each of the 16 ids and empty fault
\* and position lists, analyzeDevice returns rootCauses = [] for every device
\* and status snapshot.
C8_Original ==
    (AllSeriesEmpty /\ analysis.k # "none") =>
        Analyzed /\ analysis.rootCauses = << >>

\* C8, amended: with an empty series for each of the 16 ids and empty fault
\* and position lists, analyzeDevice does not fail; it returns a CELLULAR
\* root cause exactly when the device is not communicating and offline for
\* more than 24 hours, a FIRMWARE root cause exactly when the configuration
\* versions are both present and differ, and no other root cause.
C8_EmptyDrillDown ==
    (AllSeriesEmpty /\ analysis.k # "none") =>
        /\ Analyzed
        /\ Categories(analysis.rootCauses) \subseteq { CatCELLULAR, CatFIRMWARE }
        /\ CatCELLULAR \in Categories(analysis.rootCauses)
             <=> OfflineLongerThan(24, analyzedAt)
        /\ CatFIRMWARE \in Categories(analysis.rootCauses)
             <=> /\ device.k = "obj"
                 /\ device.parameterVersion.k = "num"
                 /\ device.parameterVersionOnDevice.k = "num"
                 /\ device.parameterVersion.v # device.parameterVersionOnDevice.v

\* empty drill-down data of a device that is not communicating, last heard of
\* within 24 hours: no root cause
C8_Witness ==
    /\ AllSeriesEmpty /\ Analyzed
    /\ statusInfo.k = "obj" /\ ~statusInfo.isDeviceCommunicating
    /\ LastContactKnown /\ MsOffline(analyzedAt) = 24 * MsPerHour
    /\ analysis.rootCauses = << >>

C10_InputsUnchanged ==
    /\ [][ (results' # results /\ ~NotCalled') => inputs' = inputs ]_vars
    /\ [](Classified =>
             classification = classifyDevice(statusInfo, faults, device, classifiedAt))
    /\ [](Analyzed =>
             analysis = analyzeDevice(device, statusInfo, sd, logRecords, faults,
                                      analyzedAt))

\* an analysis of a series whose points are not in the order the sort gives
C10_Witness ==
    /\ Analyzed /\ Classified
    /\ \E id \in ReadIds :
          /\ Len(sd[id].recs) = 2
          /\ sd[id].recs[1].dateTime < sd[id].recs[2].dateTime
          /\ sd[id].recs # SortDesc(sd[id].recs)

\* the issues of one category in a list, by their positions
IssuesOf(issues, cat) == { i \in DOMAIN issues : issues[i].category = cat }
\* a list reports the category once, with the severity, or not at all
ReportsOnce(issues, cat, sev) ==
    /\ Cardinality(IssuesOf(issues, cat)) = 1
    /\ \A i \in IssuesOf(issues, cat) : issues[i].severity = sev
ReportsNone(issues, cat) == IssuesOf(issues, cat) = {}

\* C11: classifyDevice reports OFFLINE/CRITICAL exactly when the device is
\* not communicating and was last heard of more than 72 hours ago (or never),
\* OFFLINE/WARNING exactly when it is not communicating and was last heard of
\* more than 24 and at most 72 hours ago, and no OFFLINE issue otherwise: at
\* 24 hours or less, or when the device is communicating.
C11_OfflineThresholds ==
    Classified =>
        LET issues == classification.issues
            over72 == OfflineLongerThan(72, classifiedAt)
            over24 == OfflineLongerThan(24, classifiedAt)
        IN /\ over72 => ReportsOnce(issues, CatOFFLINE, CRITICAL)
           /\ (over24 /\ ~over72) => ReportsOnce(issues, CatOFFLINE, WARNING)
           /\ ~over24 => ReportsNone(issues, CatOFFLINE)

\* last heard of exactly 72 hours before the call: still a WARNING
C11_Witness ==
    /\ Classified
    /\ ~statusInfo.isDeviceCommunicating
    /\ LastContactKnown /\ MsOffline(classifiedAt) = 72 * MsPerHour
    /\ ReportsOnce(classification.issues, CatOFFLINE, WARNING)

\* the numeric codes the faults of the call carry, as diagnostic code or as
\* failure-mode code
CodesCarried ==
    IF ~faults.present THEN {}
    ELSE { faults.recs[i].diagnostic.v :
             i \in { j \in DOMAIN faults.recs : faults.recs[j].diagnostic.k = "code" } }
         \cup
         { faults.recs[i].failureMode.v :
             i \in { j \in DOMAIN faults.recs : faults.recs[j].failureMode.k = "code" } }

\* a list reports the category once with the severity if the condition
\* holds, and not at all if it does not
ReportsIff(issues, cat, sev, cond) ==
    IF cond THEN ReportsOnce(issues, cat, sev) ELSE ReportsNone(issues, cat)

\* C12: classifyDevice reports HARDWARE/CRITICAL iff a fault carries one of
\* the codes 128, 297, 450, 467, 468 as its diagnostic or failure-mode code,
\* POWER/WARNING iff code 135 is carried, INSTALLATION/WARNING iff code 287
\* is carried, OEM/INFO iff code 488 or 491 is carried; none of the four
\* with an empty fault list.
C12_FaultCodeIssues ==
    Classified =>
        LET issues == classification.issues
        IN /\ ReportsIff(issues, CatHARDWARE, CRITICAL,
                         CodesCarried \cap {128, 297, 450, 467, 468} # {})
           /\ ReportsIff(issues, CatPOWER, WARNING, 135 \in CodesCarried)
           /\ ReportsIff(issues, CatINSTALLATION, WARNING, 287 \in CodesCarried)
           /\ ReportsIff(issues, CatOEM, INFO, CodesCarried \cap {488, 491} # {})

\* one fault whose failure-mode code is a hardware code and whose
\* diagnostic code is an OEM code
C12_Witness ==
    /\ Classified
    /\ faults.present /\ Len(faults.recs) = 1
    /\ faults.recs[1].failureMode = CodeRef(468)
    /\ faults.recs[1].diagnostic = CodeRef(491)
    /\ Categories(classification.issues) = { CatHARDWARE, CatOEM }

\* a device is supplied, both its configuration versions are present and
\* they are unequal
VersionsDiffer ==
    /\ device.k = "obj"
    /\ device.parameterVersion.k = "num"
    /\ device.parameterVersionOnDevice.k = "num"
    /\ device.parameterVersion.v # device.parameterVersionOnDevice.v

\* C13: classifyDevice reports FIRMWARE/INFO iff a device is supplied and its
\* expected and on-device configuration versions are both present and
\* unequal; with the device omitted the call succeeds and reports no
\* FIRMWARE issue.
C13_FirmwarePending ==
    /\ Classified =>
          ReportsIff(classification.issues, CatFIRMWARE, INFO, VersionsDiffer)
    /\ (classification.k # "none" /\ statusInfo.k = "obj" /\ device.k = "null") =>
          Classified /\ ReportsNone(classification.issues, CatFIRMWARE)

\* a device whose expected version is ahead of the one it runs: the
\* FIRMWARE issue is the only one
C13_Witness ==
    /\ Classified
    /\ VersionsDiffer
    /\ Len(classification.issues) = 1
    /\ ReportsOnce(classification.issues, CatFIRMWARE, INFO)
    /\ classification.primaryIssue = CatFIRMWARE

HasReading(id) == sd[id].present /\ Len(sd[id].recs) > 0
LatestReading(id) ==
    LET recs == sd[id].recs
        i == CHOOSE i \in DOMAIN recs :
                \A j \in DOMAIN recs :
                    \/ recs[j].dateTime < recs[i].dateTime
                    \/ recs[j].dateTime = recs[i].dateTime /\ j >= i
    IN recs[i].data
LatestBelow(id, n) == HasReading(id) /\ LatestReading(id) < n
LatestAbove(id, n) == HasReading(id) /\ LatestReading(id) > n

\* the root causes of one category in the analysis
Emitted(cat) == IssuesOf(analysis.rootCauses, cat)
Emits(cat) == Emitted(cat) # {}

\* C15: analyzeDevice emits a POWER root cause iff code 135 is carried by a
\* fault, as its diagnostic code or as its failure-mode code, or the latest
\* voltage reading exists and is below 11 V.
C15_Original ==
    Analyzed =>
        (Emits(CatPOWER) <=> (135 \in CodesCarried \/ LatestBelow(VOLTAGE, 11)))

\* the analysis holds one root cause of the category, with the confidence
\* and the severity
EmitsOnce(cat, conf, sev) ==
    /\ Cardinality(Emitted(cat)) = 1
    /\ \A i \in Emitted(cat) :
          /\ analysis.rootCauses[i].confidence = conf
          /\ analysis.rootCauses[i].severity = sev

\* C16: the confidence and the severity of a POWER root cause follow from
\* the latest voltage reading alone: 90/CRITICAL below 7 V, 85/CRITICAL from
\* 7 V to below 9 V, 75/WARNING at 9 V or above, 75/WARNING without a
\* reading; the cranking voltage changes neither.
C16_VoltageTiers ==
    (Analyzed /\ Emits(CatPOWER)) =>
        IF ~HasReading(VOLTAGE) THEN EmitsOnce(CatPOWER, 75, WARNING)
        ELSE IF LatestReading(VOLTAGE) < 7 THEN EmitsOnce(CatPOWER, 90, CRITICAL)
        ELSE IF LatestReading(VOLTAGE) < 9 THEN EmitsOnce(CatPOWER, 85, CRITICAL)
        ELSE EmitsOnce(CatPOWER, 75, WARNING)

\* a latest voltage of 9 V or more together with a cranking voltage below
\* 9 V: the text mentions the cranking voltage, the result stays 75/WARNING
C16_Witness ==
    /\ Analyzed
    /\ LatestAbove(VOLTAGE, 8)
    /\ LatestBelow(CRANKING_VOLTAGE, 9)
    /\ EmitsOnce(CatPOWER, 75, WARNING)
    /\ \A i \in Emitted(CatPOWER) :
          "cranking_voltage_low" \in SeqToSet(analysis.rootCauses[i].explanation)

\* the seven categories classifyDevice can report
SevenCategories ==
    { CatOFFLINE, CatHARDWARE, CatPOWER, CatINSTALLATION, CatOEM, CatFIRMWARE,
      CatGPS }

\* a fault list carrying exactly the codes of a set, one fault per code
FaultListOf(codes) ==
    (IF 128 \in codes THEN << Fault(CodeRef(128), NoRef) >> ELSE << >>)
    \o (IF 135 \in codes THEN << Fault(NoRef, CodeRef(135)) >> ELSE << >>)
    \o (IF 287 \in codes THEN << Fault(CodeRef(287), NoRef) >> ELSE << >>)
    \o (IF 488 \in codes THEN << Fault(NoRef, CodeRef(488)) >> ELSE << >>)

\* the sets of categories classifyDevice reports at the current clock
\* reading, over every status snapshot, every device and the fault lists
\* above
ReportableSets ==
    { Categories(classifyDevice(si, Arr(FaultListOf(codes)), d, now).issues) :
        si \in StatusInfos \ { NoStatusInfo },
        codes \in SUBSET {128, 135, 287, 488},
        d \in Devices }

\* C18 as stated: every subset of the seven categories is the set of
\* categories classifyDevice reports for some input.
C18_Original ==
    (NotCalled /\ events = 0) =>
        \A S \in SUBSET SevenCategories : S \in ReportableSets

\* C18, amended: OFFLINE and GPS are never reported together, since the one
\* needs a device that is not communicating and the other one that is; every
\* subset of the seven categories without that pair is the set of categories
\* classifyDevice reports for some input.
C18_IndependentChecks ==
    /\ Classified =>
          ~({ CatOFFLINE, CatGPS } \subseteq Categories(classification.issues))
    /\ (NotCalled /\ events = 0) =>
          ReportableSets =
              { S \in SUBSET SevenCategories : ~({ CatOFFLINE, CatGPS } \subseteq S) }

\* a device at 0/0 that is not communicating and long offline, with a
\* fault: OFFLINE and the fault's categories are reported, GPS is not
C18_Witness ==
    /\ Classified
    /\ ~statusInfo.isDeviceCommunicating
    /\ statusInfo.latitude = 0 /\ statusInfo.longitude = 0
    /\ { CatOFFLINE, CatHARDWARE, CatPOWER } \subseteq Categories(classification.issues)
    /\ CatGPS \notin Categories(classification.issues)

\* C19: analyzeDevice emits a CELLULAR root cause iff the latest signal
\* strength is below -113 dBm, or below -95 dBm, or the latest
\* intermittent-connection value is above 0, or the device is not
\* communicating and offline for more than 24 hours. It emits one, with the
\* confidence and severity of the first of these conditions that holds
\* (85/CRITICAL, 70/WARNING, 65/WARNING, 60 with CRITICAL beyond 72 hours
\* offline and WARNING otherwise), the confidence lying in 55..85.
C19_CellularRule ==
    Analyzed =>
        /\ \A i \in Emitted(CatCELLULAR) :
              analysis.rootCauses[i].confidence \in 55..85
        /\ IF LatestBelow(CELLULAR_RSSI, -113)
             THEN EmitsOnce(CatCELLULAR, 85, CRITICAL)
           ELSE IF LatestBelow(CELLULAR_RSSI, -95)
             THEN EmitsOnce(CatCELLULAR, 70, WARNING)
           ELSE IF LatestAbove(INTERMITTENT_CONNECTION, 0)
             THEN EmitsOnce(CatCELLULAR, 65, WARNING)
           ELSE IF OfflineLongerThan(24, analyzedAt)
             THEN EmitsOnce(CatCELLULAR, 60,
                            IF OfflineLongerThan(72, analyzedAt)
                            THEN CRITICAL ELSE WARNING)
           ELSE ~Emits(CatCELLULAR)

\* no signal together with an intermittent connection: the result is the
\* one of the first condition
C19_Witness ==
    /\ Analyzed
    /\ LatestBelow(CELLULAR_RSSI, -113)
    /\ LatestAbove(INTERMITTENT_CONNECTION, 0)
    /\ EmitsOnce(CatCELLULAR, 85, CRITICAL)

\* the position reports of the call, and whether the most recent of them
\* is more than h hours old at the clock reading at
PositionReports == IF logRecords.present THEN logRecords.recs ELSE << >>
PositionsOlderThan(h, at) ==
    /\ PositionReports # << >>
    /\ \A i \in DOMAIN PositionReports :
          at - PositionReports[i].dateTime > h * MsPerHour

\* C20: analyzeDevice emits a GPS root cause iff the latest
\* GPS-antenna-unplugged or GPS-antenna-short value is above 0, or the
\* latest GPS-not-responding value is above 0, or the device is communicating
\* and its most recent position report is more than 4 hours old; it is
\* 90/CRITICAL with an antenna fault, else 80/WARNING when GPS is not
\* responding, else 60/WARNING. Staleness alone never fires the rule with
\* an empty position list or for a device that is not communicating.
C20_GpsRule ==
    Analyzed =>
        IF \/ LatestAbove(GPS_ANTENNA_UNPLUGGED, 0)
           \/ LatestAbove(GPS_ANTENNA_SHORT, 0)
          THEN EmitsOnce(CatGPS, 90, CRITICAL)
        ELSE IF LatestAbove(GPS_NOT_RESPONDING, 0)
          THEN EmitsOnce(CatGPS, 80, WARNING)
        ELSE IF ~NotCommunicating /\ PositionsOlderThan(4, analyzedAt)
          THEN EmitsOnce(CatGPS, 60, WARNING)
        ELSE ~Emits(CatGPS)

\* a communicating device whose only position report turned more than 4
\* hours old one millisecond before the call
C20_Witness ==
    /\ Analyzed
    /\ ~NotCommunicating
    /\ Len(PositionReports) = 1
    /\ analyzedAt - PositionReports[1].dateTime = 4 * MsPerHour + 1
    /\ EmitsOnce(CatGPS, 60, WARNING)

\* C17: the drill-down panel follows the latest click: a response never puts
\* another device into the panel than the one clicked last, and once every
\* drill-down fetch has completed the panel shows the analysis of the device
\* clicked last.
C17_Original ==
    /\ [][ shown' # shown => shown'.deviceId = lastClick' ]_vars
    /\ []((drillRequests = {} /\ drillFailures = 0 /\ lastClick # "none")
            => shown.deviceId = lastClick)

\* the explanation of every root cause of the category is the list of
\* sentences
Explains(cat, sentences) ==
    \A i \in Emitted(cat) : analysis.rootCauses[i].explanation = sentences

\* C21: analyzeDevice emits a FIRMWARE root cause iff the latest
\* bootloader-update-failed value is above 0 or the two configuration
\* versions of the device are both present and unequal; the confidence is
\* always 95; with the bootloader failure the severity is WARNING and the
\* bootloader explanation is used, also when the versions differ as well;
\* with the mismatch alone the severity is INFO.
C21_FirmwareRule ==
    Analyzed =>
        IF LatestAbove(BOOTLOADER_FAIL, 0)
        THEN /\ EmitsOnce(CatFIRMWARE, 95, WARNING)
             /\ Explains(CatFIRMWARE, << "bootloader_update_failed" >>)
        ELSE IF VersionsDiffer
        THEN /\ EmitsOnce(CatFIRMWARE, 95, INFO)
             /\ Explains(CatFIRMWARE, << "pending_configuration_update" >>)
        ELSE ~Emits(CatFIRMWARE)

\* a failed bootloader update on a device whose versions differ as well:
\* WARNING with the bootloader explanation
C21_Witness ==
    /\ Analyzed
    /\ LatestAbove(BOOTLOADER_FAIL, 0)
    /\ VersionsDiffer
    /\ EmitsOnce(CatFIRMWARE, 95, WARNING)
    /\ Explains(CatFIRMWARE, << "bootloader_update_failed" >>)

\* a sentence is part of the explanation of every root cause of the category
Mentions(cat, sentence) ==
    \A i \in Emitted(cat) : sentence \in SeqToSet(analysis.rootCauses[i].explanation)
NeverMentions(cat, sentence) ==
    \A i \in Emitted(cat) : sentence \notin SeqToSet(analysis.rootCauses[i].explanation)

HardwareCodeCarried == CodesCarried \cap HARDWARE_FAULT_CODES # {}

\* C22: analyzeDevice emits a HARDWARE root cause, with confidence 90 and
\* severity CRITICAL, iff a fault carries one of the codes 128, 297, 450,
\* 467, 468 as its diagnostic or failure-mode code or the latest flash error
\* count is above 0; the explanation holds the flash sentence iff the flash
\* condition holds and the fault-code sentence iff the fault condition holds.
C22_HardwareRule ==
    Analyzed =>
        IF HardwareCodeCarried \/ LatestAbove(FLASH_ERROR, 0)
        THEN /\ EmitsOnce(CatHARDWARE, 90, CRITICAL)
             /\ IF LatestAbove(FLASH_ERROR, 0)
                THEN Mentions(CatHARDWARE, "flash_memory_errors")
                ELSE NeverMentions(CatHARDWARE, "flash_memory_errors")
             /\ IF HardwareCodeCarried
                THEN Mentions(CatHARDWARE, "fault_codes_rma")
                ELSE NeverMentions(CatHARDWARE, "fault_codes_rma")
        ELSE ~Emits(CatHARDWARE)

\* flash errors together with a hardware fault code: both sentences
C22_Witness ==
    /\ Analyzed
    /\ HardwareCodeCarried
    /\ LatestAbove(FLASH_ERROR, 0)
    /\ EmitsOnce(CatHARDWARE, 90, CRITICAL)
    /\ Mentions(CatHARDWARE, "flash_memory_errors")
    /\ Mentions(CatHARDWARE, "fault_codes_rma")

\* C23: analyzeDevice emits an INSTALLATION root cause, with confidence 75
\* and severity WARNING, iff code 287 is carried by a fault, as its
\* diagnostic code or as its failure-mode code, or the latest CAN-init-fail
\* value is above 0 or the latest CAN-short value is above 0.
C23_Original ==
    Analyzed =>
        IF \/ BAD_INSTALL_FAULT_CODE \in CodesCarried
           \/ LatestAbove(CAN_INIT_FAIL, 0)
           \/ LatestAbove(CAN_SHORT, 0)
        THEN EmitsOnce(CatINSTALLATION, 75, WARNING)
        ELSE ~Emits(CatINSTALLATION)

AllCategories ==
    { CatUNPLUGGED, CatHARDWARE, CatPOWER, CatINSTALLATION, CatGPS, CatCELLULAR,
      CatFIRMWARE, CatOEM, CatOFFLINE }

\* no category occurs twice in the list
OncePerCategory(list) ==
    \A cat \in AllCategories : Cardinality(IssuesOf(list, cat)) <= 1

\* the faults of the call that carry a hardware code
HardwareFaultsCarried ==
    { i \in DOMAIN FaultsOrEmpty(faults) :
        \/ faults.recs[i].diagnostic.k = "code"
           /\ faults.recs[i].diagnostic.v \in HARDWARE_FAULT_CODES
        \/ faults.recs[i].failureMode.k = "code"
           /\ faults.recs[i].failureMode.v \in HARDWARE_FAULT_CODES }

\* C24: in every result of classifyDevice and of analyzeDevice each category
\* occurs at most once in issues, and at most once in rootCauses, however
\* many faults, points or position reports match a rule; classifyDevice
\* returns at most 7 issues and analyzeDevice at most 8 root causes.
C24_OncePerCategory ==
    /\ Classified =>
          /\ OncePerCategory(classification.issues)
          /\ Len(classification.issues) <= 7
    /\ Analyzed =>
          /\ OncePerCategory(analysis.issues)
          /\ OncePerCategory(analysis.rootCauses)
          /\ Len(analysis.rootCauses) <= 8
          /\ Len(analysis.issues) <= 8

\* two faults that both carry a hardware code: one HARDWARE issue from the
\* classifier and one HARDWARE root cause from the analyzer
C24_Witness ==
    /\ Classified /\ Analyzed
    /\ Cardinality(HardwareFaultsCarried) = 2
    /\ Cardinality(IssuesOf(classification.issues, CatHARDWARE)) = 1
    /\ Cardinality(Emitted(CatHARDWARE)) = 1
    /\ Cardinality(IssuesOf(analysis.issues, CatHARDWARE)) = 1

\* C25: when the POWER rule fires on fault code 135 while the latest voltage
\* reading is 11 V or more, the root cause has confidence 75 and severity
\* WARNING and its explanation is not the one of a voltage below normal:
\* that explanation is produced only for a latest voltage below 11 V.
C25_Original ==
    (Analyzed /\ Emits(CatPOWER)) =>
        /\ (HasReading(VOLTAGE) /\ ~LatestBelow(VOLTAGE, VoltageWARNING)) =>
              /\ EmitsOnce(CatPOWER, 75, WARNING)
              /\ NeverMentions(CatPOWER, "voltage_below_normal")
        /\ \A i \in Emitted(CatPOWER) :
              "voltage_below_normal" \in SeqToSet(analysis.rootCauses[i].explanation)
                  => LatestBelow(VOLTAGE, VoltageWARNING)

FaultDerivedCategories == { CatHARDWARE, CatPOWER, CatINSTALLATION, CatOEM }

\* C26: for one fault list, whenever classifyDevice reports a HARDWARE,
\* POWER, INSTALLATION or OEM issue, analyzeDevice emits a root cause of the
\* same category.
C26_Original ==
    (Classified /\ Analyzed) =>
        \A cat \in FaultDerivedCategories :
            IssuesOf(classification.issues, cat) # {} => Emits(cat)

\* C27: however often the dashboard has been rendered, one click is handled
\* once: a click on a tile selects that tile, or clears the filter if that
\* tile was the active one; a click on a column header reverses the
\* direction of the sorted column, or sorts by the clicked column ascending;
\* a click on a device row issues one drill-down request.
C27_Original ==
    [][ /\ \A key \in ClickedTiles :
              TileClicked(key) =>
                  activeFilter' = (IF activeFilter = key THEN NoFilter ELSE key)
        /\ \A col \in ClickedColumns :
              HeaderClicked(col) =>
                  /\ sortCol' = col
                  /\ sortAsc' = (IF sortCol = col THEN ~sortAsc ELSE TRUE)
        /\ DeviceRowClick => requestsIssued' = requestsIssued + 1
      ]_vars

\* the classification behind a row of the table
ClassificationOfRow(i) ==
    LET j == CHOOSE j \in DOMAIN classifications :
                classifications[j].deviceId = rows[i].deviceId
    IN classifications[j].classification

\* C28: the issue label of a row of the fleet table is the label of the
\* issue that classifyDevice chose as primary: it belongs to an issue whose
\* category is primaryIssue and whose severity is the severity shown in the
\* row, and it is 'Healthy' when primaryIssue is HEALTHY.
C28_Original ==
    \A i \in DOMAIN rows :
        LET cls == ClassificationOfRow(i)
        IN IF cls.primaryIssue = HEALTHY
           THEN rows[i].issueLbl = "Healthy"
           ELSE \E j \in DOMAIN cls.issues :
                   /\ cls.issues[j].label = rows[i].issueLbl
                   /\ cls.issues[j].category = cls.primaryIssue
                   /\ cls.issues[j].severity = rows[i].severity

\* C29: when fleet loads overlap, a response of an older load never
\* replaces what a newer load has delivered: the devices cached and the
\* fleet data held (with the classifications and the status-info map made
\* from it) only ever move to a load started later.
C29_Original ==
    [][ /\ fleetData' >= fleetData
        /\ deviceCache' >= deviceCache ]_vars

\* C30: the loading indicator is visible as long as a fleet load or a
\* drill-down fetch is in flight.
C30_Original ==
    (fleetLoads # {} \/ drillRequests # {}) => loadingVisible








====
